---- MODULE Spec2Model ----
(***************************************************************************)
(* ReadableStreamMessageReader (jsonrpc/src/common, messageReader part)    *)
(* as a state machine: the framing loop of onData over a byte buffer, the  *)
(* asynchronous decode pipeline, and the partial-message timer; and       *)
(* SemanticTokensDiff and SemanticTokensBuilder (server/src/common), as    *)
(* operators over sequences of numbers with one action per method.         *)
(*                                                                         *)
(* Bytes are abstracted to one-character strings:                          *)
(*   "L"  the header key with its colon, `Content-Length:`                 *)
(*   "T"  another header key with its colon, `Content-Type:`               *)
(*   "E"  another header key with its colon, `Content-Encoding:`           *)
(*   "N"  the line end CRLF                                                *)
(*   "0".."9" decimal digits,  "x" "j" "a" "b" "g" "z" other characters    *)
(* A header block is a run of lines, each ended by "N", closed by an       *)
(* empty line, i.e. it ends at the first "N","N".                          *)
(***************************************************************************)
EXTENDS Integers, Sequences, FiniteSets, TLC

VARIABLES
    msgs,                  \* ghost: the frames the peer writes, in order
    wire,                  \* the bytes of msgs, concatenated
    pos,                   \* number of bytes of wire already handed to onData
    buffer,                \* this.buffer (RAL.MessageBuffer), as a byte sequence
    nextMessageLength,     \* this.nextMessageLength
    messageToken,          \* this.messageToken
    partialMessageTimer,   \* this.partialMessageTimer: a timer handle, 0 = undefined
    partialMessageTimeout, \* this._partialMessageTimeout
    timers,                \* the runtime's pending setTimeout entries
    now,                   \* the clock, in timer units
    contentDecoder,        \* this.options.contentDecoder !== undefined
    decodes,               \* one entry per extracted body: its decode pipeline
    delivered,             \* ids of the messages passed to this.callback, in call order
    errorEvents,           \* calls of fireError, in order
    partialEvents,         \* calls of firePartialMessage, in order
    thrown,                \* errors thrown by onData into the stream's data callback
    lastChunk,             \* ghost: what the latest onData call did
    wait,                  \* ghost: the latest wait for a body, from header read to body read
    listening,             \* listen() has been called
    disposed,              \* dispose() has been called
    listens,               \* ghost: number of listen() calls so far
    builder,               \* a SemanticTokensBuilder: its private fields
    pushed,                \* ghost: the tokens pushed since the builder was initialized
    lastPrevious,          \* ghost: whether the id of the latest previousResult call matched
    returned,              \* what the latest build() or buildEdits() call returned
    originalSequence,      \* SemanticTokensDiff.originalSequence
    modifiedSequence,      \* SemanticTokensDiff.modifiedSequence
    edits                  \* what computeDiff() returned, once it was called

readerVars == <<msgs, wire, pos, buffer, nextMessageLength, messageToken,
                partialMessageTimer, partialMessageTimeout, timers, now,
                contentDecoder, decodes, delivered, errorEvents, partialEvents,
                thrown, lastChunk, wait, listening, disposed, listens>>

tokenVars == <<builder, pushed, lastPrevious, returned, originalSequence, modifiedSequence, edits>>

vars == <<readerVars, tokenVars>>

-----------------------------------------------------------------------------
(* Bounds *)

MaxMsgs == 2
MaxTime == 5
MaxLen == 4

(* Program constants *)

DefaultPartialMessageTimeout == 10000
NoMessageLength == -1

-----------------------------------------------------------------------------
(* Sequence helpers *)

Range(s) == { s[i] : i \in 1..Len(s) }

Drop(s, n) == SubSeq(s, n + 1, Len(s))

Take(s, n) == SubSeq(s, 1, n)

RECURSIVE Flatten(_)
Flatten(ss) == IF ss = <<>> THEN <<>> ELSE Head(ss) \o Flatten(Tail(ss))

-----------------------------------------------------------------------------
(* parseInt / isNaN of the Content-Length value *)

Digits == <<"0", "1", "2", "3", "4", "5", "6", "7", "8", "9">>

IsDigit(b) == b \in Range(Digits)

DigitValue(b) == (CHOOSE i \in 1..Len(Digits) : Digits[i] = b) - 1

RECURSIVE LeadingDigits(_)
LeadingDigits(s) ==
    IF s = <<>> \/ ~IsDigit(Head(s)) THEN <<>>
    ELSE <<Head(s)>> \o LeadingDigits(Tail(s))

RECURSIVE DecimalValue(_)
DecimalValue(ds) ==
    IF ds = <<>> THEN 0
    ELSE 10 * DecimalValue(Take(ds, Len(ds) - 1)) + DigitValue(ds[Len(ds)])

\* parseInt(contentLength): the value of the leading decimal digits; NaN, written
\* <<>>, when the string does not start with a digit. A number n is written <<n>>.
parseInt(s) ==
    IF LeadingDigits(s) = <<>> THEN <<>> ELSE <<DecimalValue(LeadingDigits(s))>>

isNaN(v) == v = <<>>

-----------------------------------------------------------------------------
(* RAL.MessageBuffer *)

\* The index of the first "N" of the first "N","N" in buf, 0 when there is none.
HeaderEnd(buf) ==
    IF \E i \in 1..(Len(buf) - 1) : buf[i] = "N" /\ buf[i + 1] = "N"
    THEN CHOOSE i \in 1..(Len(buf) - 1) :
            /\ buf[i] = "N" /\ buf[i + 1] = "N"
            /\ \A j \in 1..(i - 1) : ~(buf[j] = "N" /\ buf[j + 1] = "N")
    ELSE 0

RECURSIVE SplitLines(_)
\* The lines of a header block, each given without its closing "N".
SplitLines(s) ==
    IF s = <<>> THEN <<>>
    ELSE IF \E i \in 1..Len(s) : s[i] = "N"
         THEN LET i == CHOOSE k \in 1..Len(s) :
                           s[k] = "N" /\ \A j \in 1..(k - 1) : s[j] # "N"
              IN  <<Take(s, i - 1)>> \o SplitLines(Drop(s, i))
         ELSE <<s>>

\* buffer.tryReadHeaders(): undefined (found = FALSE, the buffer untouched) while
\* the buffer holds no complete header block; else the block's lines, and the
\* buffer without the block and its closing empty line.
tryReadHeaders(buf) ==
    LET e == HeaderEnd(buf)
    IN  IF e = 0
        THEN [found |-> FALSE, lines |-> <<>>, rest |-> buf]
        ELSE [found |-> TRUE, lines |-> SplitLines(Take(buf, e)), rest |-> Drop(buf, e + 1)]

\* headers.get(key): <<>> for undefined, else <<value>>; a later line with the
\* same key replaces an earlier one (Map.set).
headersGet(lines, key) ==
    LET hits == { i \in 1..Len(lines) : lines[i] # <<>> /\ Head(lines[i]) = key }
    IN  IF hits = {} THEN <<>>
        ELSE <<Tail(lines[CHOOSE i \in hits : \A j \in hits : j <= i])>>

\* buffer.tryReadBody(length): undefined while fewer than length bytes are
\* buffered; else the first length bytes, removed from the buffer.
tryReadBody(buf, length) ==
    IF Len(buf) < length
    THEN [found |-> FALSE, body |-> <<>>, rest |-> buf]
    ELSE [found |-> TRUE, body |-> Take(buf, length), rest |-> Drop(buf, length)]

-----------------------------------------------------------------------------
(* The peer's frames (input of the model) *)

RECURSIVE ToDecimal(_)
\* The decimal digits of a natural number.
ToDecimal(n) ==
    IF n < 10 THEN <<Digits[n + 1]>>
    ELSE ToDecimal(n \div 10) \o <<Digits[(n % 10) + 1]>>

LengthLine(n) == <<"L">> \o ToDecimal(n) \o <<"N">>

TypeLine == <<"T", "j", "N">>

\* A frame with a numeric Content-Length equal to the length of its body.
WellFramed(body, withType) ==
    [header |-> (IF withType THEN TypeLine ELSE <<>>) \o LengthLine(Len(body)) \o <<"N">>,
     body   |-> body,
     framed |-> TRUE]

GoodFrames ==
    { WellFramed(<<"a">>, FALSE), WellFramed(<<"N", "N">>, TRUE), WellFramed(<<>>, FALSE) }

\* Header blocks without a usable Content-Length: a value that is no number,
\* and no Content-Length line at all.
BadFrames ==
    { [header |-> <<"L", "x", "N", "N">>, body |-> <<>>, framed |-> FALSE],
      [header |-> TypeLine \o <<"N">>,      body |-> <<>>, framed |-> FALSE] }

Frames == GoodFrames \cup BadFrames

Encode(m) == m.header \o m.body

WireOf(ms) == Flatten([i \in 1..Len(ms) |-> Encode(ms[i])])

-----------------------------------------------------------------------------
(* ReadableStreamMessageReader.onData, lines 243-282: the extraction loop *)

\* readLength with the test of line 244 dropped: a header block is looked for
\* even while a body is pending.
readLengthIgnoringPending(buf, nml) ==
    LET h == tryReadHeaders(buf)
        contentLength == headersGet(h.lines, "L")
    IN  IF ~h.found
        THEN [exit |-> "headers", rest |-> buf, length |-> NoMessageLength]
        ELSE IF contentLength = <<>> \/ contentLength[1] = <<>>
        THEN [exit |-> "missing", rest |-> h.rest, length |-> NoMessageLength]
        ELSE IF isNaN(parseInt(contentLength[1]))
        THEN [exit |-> "nan", rest |-> h.rest, length |-> NoMessageLength]
        ELSE [exit |-> "ok", rest |-> h.rest, length |-> parseInt(contentLength[1])[1]]

\* Lines 244-258: with no length pending, read a header block and its
\* Content-Length. exit is "ok" (length known), "headers" (block incomplete),
\* "missing" or "nan" (the two throws).
readLength(buf, nml) ==
    IF nml # NoMessageLength
    THEN [exit |-> "ok", rest |-> buf, length |-> nml]
    ELSE LET h == tryReadHeaders(buf)
             contentLength == headersGet(h.lines, "L")
         IN  IF ~h.found
             THEN [exit |-> "headers", rest |-> buf, length |-> NoMessageLength]
             ELSE IF contentLength = <<>> \/ contentLength[1] = <<>>
             THEN [exit |-> "missing", rest |-> h.rest, length |-> NoMessageLength]
             ELSE IF isNaN(parseInt(contentLength[1]))
             THEN [exit |-> "nan", rest |-> h.rest, length |-> NoMessageLength]
             ELSE [exit |-> "ok", rest |-> h.rest, length |-> parseInt(contentLength[1])[1]]

\* onDataLoop as a loop that awaits the decode of a body before it goes on: no
\* body is extracted while a decode is pending, and at most one per call.
onDataLoopAwaitingDecode(buf, nml, bodies) ==
    LET r == readLength(buf, nml)
        b == tryReadBody(r.rest, r.length)
    IN  IF \E k \in 1..Len(decodes) : decodes[k].stage \in {"content", "type"}
        THEN [buffer |-> buf, nextMessageLength |-> nml, bodies |-> bodies, exit |-> "headers"]
        ELSE IF r.exit # "ok"
        THEN [buffer |-> r.rest, nextMessageLength |-> r.length, bodies |-> bodies, exit |-> r.exit]
        ELSE IF ~b.found
        THEN [buffer |-> r.rest, nextMessageLength |-> r.length, bodies |-> bodies, exit |-> "body"]
        ELSE [buffer |-> b.rest, nextMessageLength |-> NoMessageLength,
              bodies |-> Append(bodies, b.body), exit |-> "headers"]

RECURSIVE onDataLoop(_, _, _)
\* The while (true) loop: the bodies extracted by one call, what is left in the
\* buffer, the pending length, and how the call ended: "headers" or "body"
\* (returns at lines 247 and 263), "missing" or "nan" (throws at 251 and 255).
onDataLoop(buf, nml, bodies) ==
    LET r == readLength(buf, nml)
        b == tryReadBody(r.rest, r.length)
    IN  IF r.exit # "ok"
        THEN [buffer |-> r.rest, nextMessageLength |-> r.length, bodies |-> bodies, exit |-> r.exit]
        ELSE IF ~b.found
        THEN [buffer |-> r.rest, nextMessageLength |-> r.length, bodies |-> bodies, exit |-> "body"]
        ELSE onDataLoop(b.rest, NoMessageLength, Append(bodies, b.body))

-----------------------------------------------------------------------------
(* The partial-message timer. A pending setTimeout is a record                *)
(* [id, token, timeout, due]; st is [timer |-> handle, timers |-> pending].  *)

FreshTimerId(ts) == CHOOSE i \in 1..(Cardinality(ts) + 1) : \A t \in ts : t.id # i

clearPartialMessageTimer(st) ==
    IF st.timer # 0
    THEN [timer |-> 0, timers |-> { t \in st.timers : t.id # st.timer }]
    ELSE st

setPartialMessageTimer(st, timeout, token, t) ==
    LET c == clearPartialMessageTimer(st)
        id == FreshTimerId(c.timers)
    IN  IF timeout <= 0 THEN c
        ELSE [timer  |-> id,
              timers |-> c.timers \cup
                    {[id |-> id, token |-> token, timeout |-> timeout, due |-> t + timeout]}]

-----------------------------------------------------------------------------
(* Events *)

\* AbstractMessageReader.dispose disposes the error and the close emitter, and
\* only these: the partial-message emitter keeps its listeners.
EmitterDisposed(name) == disposed /\ name \in {"error", "close"}

\* fireError: a call of errorEmitter.fire; heard tells whether the emitter
\* still had its listeners.
fireError(log, k, stage) ==
    Append(log, [msg |-> k, stage |-> stage, heard |-> ~EmitterDisposed("error")])

\* firePartialMessage({ messageToken: token, waitingTime: timeout }); the other
\* fields are ghosts: the message the reader waits for, the reader's fields at
\* the call, the time of the call and the time since the latest chunk.
firePartialMessage(log, token, timeout) ==
    Append(log, [messageToken  |-> token,
                 waitingTime   |-> timeout,
                 msg           |-> Len(decodes) + 1,
                 pending       |-> nextMessageLength,
                 timeoutNow    |-> partialMessageTimeout,
                 at            |-> now,
                 sinceChunk    |-> now - lastChunk.at,
                 heard         |-> ~EmitterDisposed("partialMessage"),
                 afterDispose  |-> disposed])

-----------------------------------------------------------------------------
(* SemanticTokensDiff.computeDiff (server/src/common/semanticTokens.ts).      *)
(* Arrays are sequences; the array index i is the sequence index i + 1. An   *)
(* edit is [start, deleteCount, data], data being <<>> when the edit has no  *)
(* data property and <<d>> when it has the array d.                          *)

Min(a, b) == IF a <= b THEN a ELSE b

Max(a, b) == IF a >= b THEN a ELSE b

\* Array.prototype.slice(from, to) for from >= 0 and to >= 0.
slice(s, from, to) ==
    IF from >= Min(to, Len(s)) THEN <<>> ELSE SubSeq(s, from + 1, Min(to, Len(s)))

RECURSIVE startIndex(_, _, _)
\* The loop of lines 71-73, entered with startIndex = i.
startIndex(original, modified, i) ==
    IF i < Len(modified) /\ i < Len(original) /\ original[i + 1] = modified[i + 1]
    THEN startIndex(original, modified, i + 1)
    ELSE i

RECURSIVE endIndex(_, _, _)
\* The loop of lines 77-79, entered with endIndex = i.
endIndex(original, modified, i) ==
    IF i < Len(modified) /\ i < Len(original)
         /\ original[Len(original) - i] = modified[Len(modified) - i]
    THEN endIndex(original, modified, i + 1)
    ELSE i

\* computeDiff without the branch of lines 90-93: nothing is returned when only
\* the original sequence has elements left.
computeDiffWithoutDeletion(original, modified) ==
    LET originalLength == Len(original)
        modifiedLength == Len(modified)
        start == startIndex(original, modified, 0)
        end == endIndex(original, modified, 0) - 1
    IN  IF start < modifiedLength /\ start < originalLength
        THEN << [start |-> start,
                 deleteCount |-> originalLength - end - start,
                 data |-> <<slice(modified, start, modifiedLength - end)>>] >>
        ELSE IF start < modifiedLength
        THEN << [start |-> start, deleteCount |-> 0,
                 data |-> <<slice(modified, start, modifiedLength)>>] >>
        ELSE <<>>

\* computeDiff(), lines 67-98: the list of edits returned.
computeDiff(original, modified) ==
    LET originalLength == Len(original)
        modifiedLength == Len(modified)
        start == startIndex(original, modified, 0)
        end == endIndex(original, modified, 0) - 1
    IN  IF start < modifiedLength /\ start < originalLength
        THEN << [start |-> start,
                 deleteCount |-> originalLength - end - start,
                 data |-> <<slice(modified, start, modifiedLength - end)>>] >>
        ELSE IF start < modifiedLength
        THEN << [start |-> start, deleteCount |-> 0,
                 data |-> <<slice(modified, start, modifiedLength)>>] >>
        ELSE IF start < originalLength
        THEN << [start |-> start, deleteCount |-> originalLength - start, data |-> <<>>] >>
        ELSE <<>>

-----------------------------------------------------------------------------
(* SemanticTokensBuilder (server/src/common/semanticTokens.ts). A builder is  *)
(* the record of its fields [id, prevLine, prevChar, data, prevData];        *)
(* prevData is <<>> for undefined and <<d>> for the array d. _dataLen is     *)
(* Len(data): both are reset together and grow together.                     *)

\* initialize(), lines 117-123, Date.now() being t.
initialize(b, t) ==
    [b EXCEPT !.id = t, !.prevLine = 0, !.prevChar = 0, !.data = <<>>]

\* new SemanticTokensBuilder(), lines 112-115, Date.now() being t.
NewBuilder(t) ==
    initialize([id |-> 0, prevLine |-> 0, prevChar |-> 0, data |-> <<>>, prevData |-> <<>>], t)

\* push with the character always stored relative to the previous token, also
\* when the token is on another line.
pushAlwaysRelative(b, line, char, length, tokenType, tokenModifiers) ==
    LET pushLine == IF Len(b.data) > 0 THEN line - b.prevLine ELSE line
        pushChar == IF Len(b.data) > 0 THEN char - b.prevChar ELSE char
    IN  [b EXCEPT !.data = b.data \o <<pushLine, pushChar, length, tokenType, tokenModifiers>>,
                  !.prevLine = line,
                  !.prevChar = char]

\* push(line, char, length, tokenType, tokenModifiers), lines 125-143.
push(b, line, char, length, tokenType, tokenModifiers) ==
    LET pushLine == IF Len(b.data) > 0 THEN line - b.prevLine ELSE line
        pushChar == IF Len(b.data) > 0 /\ pushLine = 0 THEN char - b.prevChar ELSE char
    IN  [b EXCEPT !.data = b.data \o <<pushLine, pushChar, length, tokenType, tokenModifiers>>,
                  !.prevLine = line,
                  !.prevChar = char]

\* previousResult(id), lines 149-154, Date.now() being t: the builder after
\* the call.
previousResult(b, id, t) ==
    initialize(IF b.id = id THEN [b EXCEPT !.prevData = <<b.data>>] ELSE b, t)

\* build(), lines 156-162: the builder after the call and the value returned.
build(b) ==
    [builder |-> [b EXCEPT !.prevData = <<>>],
     value   |-> [resultId |-> b.id, data |-> b.data]]

\* canBuildEdits(), lines 164-166.
canBuildEdits(b) == b.prevData # <<>>

\* buildEdits(), lines 168-177: the builder after the call and the value
\* returned.
buildEdits(b) ==
    IF b.prevData # <<>>
    THEN [builder |-> b,
          value   |-> [resultId |-> b.id, edits |-> computeDiff(b.prevData[1], b.data)]]
    ELSE build(b)

-----------------------------------------------------------------------------
(* State machine *)

\* Ghost: the wait for a body. It opens when a call reads a header block and
\* leaves its body incomplete (since: the time, timeout: the timeout then,
\* events: the events fired so far), and closes when that body is read
\* (waited: the time it took, events: the events fired meanwhile). steady
\* tells that the timeout was not set during the wait.
NoWait ==
    [open |-> FALSE, since |-> 0, waited |-> 0, timeout |-> 0, steady |-> TRUE, events |-> 0]

WaitAfterOnData(r) ==
    LET closed == IF wait.open /\ r.bodies # <<>>
                  THEN [wait EXCEPT !.open = FALSE, !.since = 0, !.waited = now - wait.since,
                                    !.events = Len(partialEvents) - wait.events]
                  ELSE wait
    IN  IF r.exit = "body" /\ ~closed.open
        THEN [open |-> TRUE, since |-> now, waited |-> 0, timeout |-> partialMessageTimeout,
              steady |-> TRUE, events |-> Len(partialEvents)]
        ELSE closed

\* Ghost: whether a chunk ended inside a header block or inside a body.
CutInside(r) == r.exit = "body" \/ (r.exit = "headers" /\ r.buffer # <<>>)

TimeoutValues == {0, 2}

\* No semantic tokens are built or compared while the reader runs.
TokensIdle ==
    /\ builder = NewBuilder(0)
    /\ pushed = <<>>
    /\ lastPrevious = "none"
    /\ returned = <<>>
    /\ originalSequence = <<>>
    /\ modifiedSequence = <<>>
    /\ edits = <<>>

\* The reader after construction, for a peer that writes one of the frame
\* sequences inputs, with or without a content decoder configured.
ReaderInit(inputs, decoders) ==
    /\ msgs \in inputs
    /\ wire = WireOf(msgs)
    /\ pos = 0
    /\ buffer = <<>>
    /\ nextMessageLength = NoMessageLength
    /\ messageToken = 0
    /\ partialMessageTimer = 0
    /\ partialMessageTimeout = DefaultPartialMessageTimeout
    /\ timers = {}
    /\ now = 0
    /\ contentDecoder \in decoders
    /\ decodes = <<>>
    /\ delivered = <<>>
    /\ errorEvents = <<>>
    /\ partialEvents = <<>>
    /\ thrown = <<>>
    /\ lastChunk = [at |-> 0, cut |-> FALSE, exit |-> "none", timeout |-> 0, events |-> 0]
    /\ wait = NoWait
    /\ listening = FALSE
    /\ disposed = FALSE
    /\ listens = 0

InitWith(inputs, decoders) == ReaderInit(inputs, decoders) /\ TokensIdle

\* listen(callback), on a reader that is not listening yet.
Listen ==
    /\ ~listening
    /\ listening' = TRUE
    /\ nextMessageLength' = NoMessageLength
    /\ messageToken' = 0
    /\ partialMessageTimer' = 0
    /\ UNCHANGED <<msgs, wire, pos, buffer, partialMessageTimeout, timers, now,
                   contentDecoder, decodes, delivered, errorEvents, partialEvents,
                   thrown, lastChunk, wait, disposed>>
    /\ listens' = listens + 1
    /\ UNCHANGED tokenVars

\* The decode pipeline started for an extracted body (lines 267-281): with a
\* content decoder the body first waits for it; without one p is already
\* resolved and the content-type decoder is called in the same turn.
NewDecode(body) ==
    [body |-> body, stage |-> IF contentDecoder THEN "content" ELSE "type"]

\* TimerAfterOnData without the call of line 262: an incomplete body arms no
\* timer.
TimerAfterOnDataNotSetting(r) ==
    LET st0 == [timer |-> partialMessageTimer, timers |-> timers]
    IN  IF r.bodies # <<>> THEN clearPartialMessageTimer(st0) ELSE st0

\* The timer after one onData call: cleared once a body was extracted (line
\* 265), set when the call ends on an incomplete body (line 262).
TimerAfterOnData(r) ==
    LET st0 == [timer |-> partialMessageTimer, timers |-> timers]
        st1 == IF r.bodies # <<>> THEN clearPartialMessageTimer(st0) ELSE st0
    IN  IF r.exit = "body"
        THEN setPartialMessageTimer(st1, partialMessageTimeout, messageToken, now)
        ELSE st1

\* The stream hands the next n bytes to onData.
OnData(n) ==
    /\ listening
    /\ pos + n <= Len(wire)
    /\ LET data == SubSeq(wire, pos + 1, pos + n)
           r    == onDataLoop(buffer \o data, nextMessageLength, <<>>)
           st   == TimerAfterOnData(r)
       IN  /\ buffer' = r.buffer
           /\ nextMessageLength' = r.nextMessageLength
           /\ decodes' = decodes \o [i \in 1..Len(r.bodies) |-> NewDecode(r.bodies[i])]
           /\ partialMessageTimer' = st.timer
           /\ timers' = st.timers
           /\ thrown' = IF r.exit \in {"missing", "nan"}
                        THEN Append(thrown, [kind |-> r.exit,
                                             extracted |-> Len(decodes) + Len(r.bodies)])
                        ELSE thrown
           /\ lastChunk' = [at |-> now, cut |-> lastChunk.cut \/ CutInside(r), exit |-> r.exit,
                            timeout |-> partialMessageTimeout, events |-> Len(partialEvents)]
           /\ wait' = WaitAfterOnData(r)
    /\ pos' = pos + n
    /\ UNCHANGED <<msgs, wire, messageToken, partialMessageTimeout, now, contentDecoder,
                   delivered, errorEvents, partialEvents, listening, disposed>>
    /\ UNCHANGED <<listens, tokenVars>>

\* ContentDecoded with a rejection that is reported and then treated like a
\* fulfilment: the content-type decoder is still called.
ContentDecodedGoingOn(k, ok) ==
    /\ k \in 1..Len(decodes)
    /\ decodes[k].stage = "content"
    /\ decodes' = [decodes EXCEPT ![k].stage = "type"]
    /\ errorEvents' = IF ok THEN errorEvents ELSE fireError(errorEvents, k, "content")
    /\ UNCHANGED <<msgs, wire, pos, buffer, nextMessageLength, messageToken,
                   partialMessageTimer, partialMessageTimeout, timers, now, contentDecoder,
                   delivered, partialEvents, thrown, lastChunk, wait, listening, disposed>>
    /\ UNCHANGED <<listens, tokenVars>>

\* this.options.contentDecoder.decode(body) settles for body k.
ContentDecoded(k, ok) ==
    /\ k \in 1..Len(decodes)
    /\ decodes[k].stage = "content"
    /\ decodes' = [decodes EXCEPT ![k].stage = IF ok THEN "type" ELSE "failed"]
    /\ errorEvents' = IF ok THEN errorEvents ELSE fireError(errorEvents, k, "content")
    /\ UNCHANGED <<msgs, wire, pos, buffer, nextMessageLength, messageToken,
                   partialMessageTimer, partialMessageTimeout, timers, now, contentDecoder,
                   delivered, partialEvents, thrown, lastChunk, wait, listening, disposed>>
    /\ UNCHANGED <<listens, tokenVars>>

\* this.options.contentTypeDecoder.decode(value) settles for body k: the
\* callback is called with the message, or fireError with the error.
TypeDecoded(k, ok) ==
    /\ k \in 1..Len(decodes)
    /\ decodes[k].stage = "type"
    /\ decodes' = [decodes EXCEPT ![k].stage = IF ok THEN "delivered" ELSE "failed"]
    /\ delivered' = IF ok THEN Append(delivered, k) ELSE delivered
    /\ errorEvents' = IF ok THEN errorEvents ELSE fireError(errorEvents, k, "type")
    /\ UNCHANGED <<msgs, wire, pos, buffer, nextMessageLength, messageToken,
                   partialMessageTimer, partialMessageTimeout, timers, now, contentDecoder,
                   partialEvents, thrown, lastChunk, wait, listening, disposed>>
    /\ UNCHANGED <<listens, tokenVars>>

\* set partialMessageTimeout(timeout)
SetPartialMessageTimeout(v) ==
    /\ v # partialMessageTimeout
    /\ partialMessageTimeout' = v
    /\ wait' = IF wait.open THEN [wait EXCEPT !.steady = FALSE] ELSE wait
    /\ UNCHANGED <<msgs, wire, pos, buffer, nextMessageLength, messageToken,
                   partialMessageTimer, timers, now, contentDecoder, decodes, delivered,
                   errorEvents, partialEvents, thrown, lastChunk, listening, disposed>>
    /\ UNCHANGED <<listens, tokenVars>>

\* The callback given to setTimeout at lines 297-303 runs for the due timer t.
TimerFired(t) ==
    /\ t \in timers
    /\ t.due <= now
    /\ LET st0 == [timer |-> 0, timers |-> timers \ {t}]
           st  == IF t.token = messageToken
                  THEN setPartialMessageTimer(st0, partialMessageTimeout, messageToken, now)
                  ELSE st0
       IN  /\ partialMessageTimer' = st.timer
           /\ timers' = st.timers
           /\ partialEvents' = IF t.token = messageToken
                               THEN firePartialMessage(partialEvents, t.token, t.timeout)
                               ELSE partialEvents
    /\ UNCHANGED <<msgs, wire, pos, buffer, nextMessageLength, messageToken,
                   partialMessageTimeout, now, contentDecoder, decodes, delivered,
                   errorEvents, thrown, lastChunk, wait, listening, disposed>>
    /\ UNCHANGED <<listens, tokenVars>>

\* Time passes; a due timer runs before the clock moves on.
Tick ==
    /\ now < MaxTime
    /\ \A t \in timers : t.due > now
    /\ now' = now + 1
    /\ UNCHANGED <<msgs, wire, pos, buffer, nextMessageLength, messageToken,
                   partialMessageTimer, partialMessageTimeout, timers, contentDecoder,
                   decodes, delivered, errorEvents, partialEvents, thrown, lastChunk,
                   wait, listening, disposed>>
    /\ UNCHANGED <<listens, tokenVars>>

\* AbstractMessageReader.dispose()
Dispose ==
    /\ ~disposed
    /\ disposed' = TRUE
    /\ UNCHANGED <<msgs, wire, pos, buffer, nextMessageLength, messageToken,
                   partialMessageTimer, partialMessageTimeout, timers, now, contentDecoder,
                   decodes, delivered, errorEvents, partialEvents, thrown, lastChunk,
                   wait, listening>>
    /\ UNCHANGED <<listens, tokenVars>>

MaxListens == 2

\* listen(callback) on a reader that is listening already: the three fields
\* are assigned again (lines 230-232); the pending setTimeout whose handle was
\* in partialMessageTimer is not cleared, and the buffer is not touched.
ListenAgain ==
    /\ listening
    /\ listens < MaxListens
    /\ listens' = listens + 1
    /\ nextMessageLength' = NoMessageLength
    /\ messageToken' = 0
    /\ partialMessageTimer' = 0
    /\ UNCHANGED <<msgs, wire, pos, buffer, partialMessageTimeout, timers, now,
                   contentDecoder, decodes, delivered, errorEvents, partialEvents,
                   thrown, lastChunk, wait, listening, disposed>>
    /\ UNCHANGED tokenVars

Init == InitWith(UNION { [1..n -> Frames] : n \in 0..MaxMsgs }, BOOLEAN)

\* Framing and decoding: chunks arrive and decodes settle in any order.
Next ==
    \/ Listen
    \/ \E n \in 1..(Len(wire) - pos) : OnData(n)
    \/ \E k \in 1..Len(decodes), ok \in BOOLEAN : ContentDecoded(k, ok)
    \/ \E k \in 1..Len(decodes), ok \in BOOLEAN : TypeDecoded(k, ok)
    \/ Dispose

Spec == Init /\ [][Next]_vars

\* The partial-message timer: chunks arrive while time passes, timers run, the
\* timeout is set and the reader is disposed of.
\* The peer writes two frames, each with a body of one or of three bytes.
TimerFrames == { WellFramed(<<"a">>, FALSE), WellFramed(<<"a", "b", "a">>, FALSE) }

TimerInit == InitWith([1..2 -> TimerFrames], {FALSE})

TimerNext ==
    \/ Listen
    \/ \E n \in 1..(Len(wire) - pos) : OnData(n)
    \/ \E v \in TimeoutValues : SetPartialMessageTimeout(v)
    \/ \E t \in timers : TimerFired(t)
    \/ Tick
    \/ Dispose

TimerSpec == TimerInit /\ [][TimerNext]_vars

-----------------------------------------------------------------------------
(* Properties of framing and decoding, checked under Spec *)

AllFramed == \A i \in 1..Len(msgs) : msgs[i].framed

AllDelivered == pos = Len(wire)

ErrorsFor(k) == { i \in 1..Len(errorEvents) : errorEvents[i].msg = k }

DeliveriesOf(k) == { i \in 1..Len(delivered) : delivered[i] = k }

\* C1: framing robustness. When the peer wrote only well-framed messages and
\* every byte has been handed to onData, however the bytes were cut into
\* chunks, the reader has extracted exactly one body per message, body i being
\* the body of message i, and onData has thrown nothing.
C1_FramingRobust ==
    (AllFramed /\ AllDelivered) =>
        /\ Len(decodes) = Len(msgs)
        /\ \A i \in 1..Len(msgs) : decodes[i].body = msgs[i].body
        /\ thrown = <<>>
        /\ buffer = <<>>

\* Two well-framed messages were delivered whole, some chunk having ended
\* inside a header block or a body, and both bodies were extracted.
C1_Witness ==
    /\ AllFramed /\ AllDelivered
    /\ Len(msgs) = 2
    /\ msgs[1].body # <<>> /\ msgs[2].body # <<>>
    /\ lastChunk.cut
    /\ Len(decodes) = 2

\* C2: delivery order. The callback receives the messages in the order their
\* bytes arrived: the ids in delivered increase.
C2_DeliveredInArrivalOrder ==
    \A i, j \in 1..Len(delivered) : i < j => delivered[i] < delivered[j]

\* C6: framing errors are fatal. Once onData has thrown for a header block
\* without a usable Content-Length, no message extracted after that block is
\* passed to the callback.
C6_NothingDeliveredAfterFramingError ==
    thrown # <<>> => \A i \in 1..Len(delivered) : delivered[i] <= thrown[1].extracted

\* C7: framing errors are events. For every header block without a usable
\* Content-Length the reader has fired an error event carrying that failure.
C7_FramingErrorFiresEvent ==
    \A i \in 1..Len(thrown) : \E j \in 1..Len(errorEvents) : errorEvents[j].stage = thrown[i].kind

\* C8: decode failures are not fatal. For well-framed input: a message whose
\* content or content-type decode was rejected has exactly one fireError call
\* and no callback call; a message without a rejected decode has no fireError
\* call; a message whose decode was fulfilled has exactly one callback call;
\* and once every byte has arrived each message, whatever happened to the
\* decodes of the messages before it, was extracted with its own body.
C8_DecodeFailureNotFatal ==
    AllFramed =>
        /\ \A k \in 1..Len(decodes) :
              /\ decodes[k].stage = "failed" =>
                    Cardinality(ErrorsFor(k)) = 1 /\ DeliveriesOf(k) = {}
              /\ decodes[k].stage # "failed" => ErrorsFor(k) = {}
              /\ decodes[k].stage = "delivered" => Cardinality(DeliveriesOf(k)) = 1
              /\ decodes[k].stage \in {"content", "type"} => DeliveriesOf(k) = {}
        /\ \A e \in Range(errorEvents) : e.msg \in 1..Len(decodes)
        /\ AllDelivered =>
              /\ Len(decodes) = Len(msgs)
              /\ \A i \in 1..Len(msgs) : decodes[i].body = msgs[i].body

\* The decode of the first of two well-framed messages was rejected, and the
\* second, with its own body, was passed to the callback.
C8_Witness ==
    /\ AllFramed /\ AllDelivered
    /\ Len(msgs) = 2
    /\ Len(decodes) = 2
    /\ decodes[1].stage = "failed"
    /\ Cardinality(ErrorsFor(1)) = 1
    /\ decodes[2].stage = "delivered"
    /\ decodes[2].body = msgs[2].body
    /\ msgs[2].body # msgs[1].body
    /\ delivered = <<2>>

-----------------------------------------------------------------------------
(* Properties of the partial-message timer, checked under TimerSpec *)

\* C3 as claimed: when a body was read more than twice the timeout after its
\* header block, the timeout being positive and not set meanwhile, at least
\* one partial-message event fired during the wait.
C3_EventWithinTwoTimeouts ==
    (~wait.open /\ wait.timeout > 0 /\ wait.steady /\ wait.waited > 2 * wait.timeout)
        => wait.events >= 1

\* C3 as amended: when the latest chunk left a body incomplete under a positive
\* timeout and the stream then stayed silent for more than that timeout, a
\* partial-message event has fired since that chunk.
C3_EventAfterSilence ==
    (lastChunk.exit = "body" /\ lastChunk.timeout > 0
        /\ now > lastChunk.at + lastChunk.timeout)
        => Len(partialEvents) > lastChunk.events

\* A body is incomplete, the stream has been silent for more than the timeout
\* and the event has fired.
C3_Witness ==
    /\ wait.open
    /\ lastChunk.exit = "body" /\ lastChunk.timeout > 0
    /\ now > lastChunk.at + lastChunk.timeout
    /\ Len(partialEvents) > lastChunk.events

\* C4: the events fired while the reader waits for one message carry strictly
\* increasing waitingTime values.
C4_WaitingTimeIncreases ==
    \A i, j \in 1..Len(partialEvents) :
        (i < j /\ partialEvents[i].msg = partialEvents[j].msg)
            => partialEvents[i].waitingTime < partialEvents[j].waitingTime

\* C5: no partial-message event fires while partialMessageTimeout is <= 0.
C5_NoEventWhileDisabled ==
    \A i \in 1..Len(partialEvents) : partialEvents[i].timeoutNow > 0

\* C9: no partial-message event reaches a subscriber after dispose().
C9_NoEventAfterDispose ==
    \A i \in 1..Len(partialEvents) :
        ~(partialEvents[i].afterDispose /\ partialEvents[i].heard)

\* C10: partial-message events raised for two different messages carry
\* different messageToken values.
C10_TokenPerMessage ==
    \A i, j \in 1..Len(partialEvents) :
        partialEvents[i].msg # partialEvents[j].msg
            => partialEvents[i].messageToken # partialEvents[j].messageToken


-----------------------------------------------------------------------------
(* Ingestion and decoding are independent, checked under Spec *)

\* The number of messages whose last byte is among the first p bytes written.
CompleteFrames(p) ==
    Cardinality({ n \in 1..Len(msgs) : Len(WireOf(Take(msgs, n))) <= p })

\* C13: a slow decode does not block ingestion. For well-framed input, whatever
\* the decodes of the earlier messages are doing, every message whose bytes
\* have all arrived has been extracted with its own body; the decode of each
\* extracted message can settle on its own; and every message whose decode
\* completed has been passed to the callback.
C13_SlowDecodeDoesNotBlock ==
    AllFramed =>
        /\ Len(decodes) = CompleteFrames(pos)
        /\ \A k \in 1..Len(decodes) :
              /\ decodes[k].body = msgs[k].body
              /\ decodes[k].stage = "content" => ENABLED ContentDecoded(k, TRUE)
              /\ decodes[k].stage = "type" => ENABLED TypeDecoded(k, TRUE)
              /\ decodes[k].stage = "delivered" => DeliveriesOf(k) # {}

\* The decode of the first message is still pending while the second message,
\* whose bytes arrived later, is extracted and passed to the callback.
C13_Witness ==
    /\ AllFramed
    /\ Len(decodes) = 2
    /\ decodes[1].stage \in {"content", "type"}
    /\ decodes[2].stage = "delivered"
    /\ decodes[2].body = msgs[2].body
    /\ msgs[2].body # msgs[1].body
    /\ delivered = <<2>>


-----------------------------------------------------------------------------
(* listen() called again, checked under ListenSpec *)

\* One frame with a body of three bytes; listen() may be called again at any
\* time while chunks arrive, time passes and timers run.
ListenInit == InitWith([1..1 -> { WellFramed(<<"a", "b", "a">>, FALSE) }], {FALSE})

ListenNext ==
    \/ Listen
    \/ ListenAgain
    \/ \E n \in 1..(Len(wire) - pos) : OnData(n)
    \/ \E v \in TimeoutValues : SetPartialMessageTimeout(v)
    \/ \E t \in timers : TimerFired(t)
    \/ Tick

ListenSpec == ListenInit /\ [][ListenNext]_vars

\* C12: listen re-initializes all sequencing state. Every call of listen
\* leaves the reader expecting a header block, with message token 0 and with
\* no timer pending that was armed before the call.
C12_ListenReinitializes ==
    [][listens' # listens =>
          /\ nextMessageLength' = NoMessageLength
          /\ messageToken' = 0
          /\ timers' = {}]_vars

\* C11: partial-message events only for partial messages. Whenever a timer is
\* armed the reader has read a header block and waits for its body, and every
\* event was fired in such a state.
C11_EventsOnlyForPartialMessages ==
    /\ timers # {} => nextMessageLength # NoMessageLength
    /\ \A i \in 1..Len(partialEvents) : partialEvents[i].pending # NoMessageLength

\* C18: a partial-message event needs a silent stream. Every event fired at
\* least the timeout its timer was armed with after the latest chunk, and
\* after the event before it.
C18_EventNeedsSilence ==
    \A i \in 1..Len(partialEvents) :
        /\ partialEvents[i].sinceChunk >= partialEvents[i].waitingTime
        /\ i > 1 => partialEvents[i].at - partialEvents[i - 1].at >= partialEvents[i].waitingTime


-----------------------------------------------------------------------------
(* Content decoders and the Content-Encoding header, checked under          *)
(* EncodingSpec                                                              *)

\* The name of the content decoder given as options.contentDecoder.
DecoderName == <<"g">>

\* ResolvedMessageReaderOptions.contentDecoders: the names registered by
\* fromOptions when options holds at most a contentDecoder.
contentDecoders == IF contentDecoder THEN {DecoderName} ELSE {}

\* A well-framed message whose header block names a content encoding.
EncodedFrame(name, body) ==
    [header |-> <<"E">> \o name \o <<"N">> \o LengthLine(Len(body)) \o <<"N">>,
     body   |-> body,
     framed |-> TRUE]

\* The peer writes two frames, each without an encoding header, or naming the
\* decoder "g", or naming a decoder "z" that is never registered.
EncodingFrames ==
    { WellFramed(<<"a">>, FALSE), EncodedFrame(DecoderName, <<"a">>), EncodedFrame(<<"z">>, <<"b">>) }

EncodingInit == InitWith([1..2 -> EncodingFrames], BOOLEAN)

EncodingSpec == EncodingInit /\ [][Next]_vars

\* The value of the Content-Encoding header of a frame: <<>> when it has none.
EncodingOf(m) == headersGet(tryReadHeaders(m.header).lines, "E")

\* C14: the content decoder is selected by header value. A message waits for
\* a content decoder only if its header names a registered one; and a message
\* whose header names a decoder that is not registered is never passed to the
\* callback: once its decode has settled, it has failed with an error event.
C14_DecoderSelectedByHeader ==
    \A k \in 1..Len(decodes) :
        LET enc == EncodingOf(msgs[k])
        IN  /\ decodes[k].stage = "content" => (enc # <<>> /\ enc[1] \in contentDecoders)
            /\ (enc # <<>> /\ enc[1] \notin contentDecoders) =>
                  /\ DeliveriesOf(k) = {}
                  /\ decodes[k].stage \in {"delivered", "failed"} =>
                        (decodes[k].stage = "failed" /\ ErrorsFor(k) # {})


-----------------------------------------------------------------------------
(* SemanticTokensDiff, checked under DiffSpec *)

\* The numbers token data is made of here.
Numbers == {1, 2}

Sequences == UNION { [1..n -> Numbers] : n \in 0..MaxLen }

\* new SemanticTokensDiff(originalSequence, modifiedSequence), for any two
\* sequences of at most MaxLen numbers; no reader runs and no builder is used.
DiffInit ==
    /\ ReaderInit({<<>>}, {FALSE})
    /\ builder = NewBuilder(0)
    /\ pushed = <<>>
    /\ lastPrevious = "none"
    /\ returned = <<>>
    /\ originalSequence \in Sequences
    /\ modifiedSequence \in Sequences
    /\ edits = <<>>

\* computeDiff() is called.
ComputeDiff ==
    /\ edits = <<>>
    /\ edits' = <<computeDiff(originalSequence, modifiedSequence)>>
    /\ UNCHANGED <<readerVars, builder, pushed, lastPrevious, returned,
                   originalSequence, modifiedSequence>>

DiffNext == ComputeDiff

DiffSpec == DiffInit /\ [][DiffNext]_vars

\* An edit applied to a sequence: at index start deleteCount elements are
\* removed (as many as there are, none for a negative count) and data, when
\* the edit has one, is inserted there.
applyEdit(seq, e) ==
    Take(seq, Min(e.start, Len(seq)))
        \o (IF e.data = <<>> THEN <<>> ELSE e.data[1])
        \o Drop(seq, Min(e.start + Max(e.deleteCount, 0), Len(seq)))

RECURSIVE applyEdits(_, _)
applyEdits(seq, es) ==
    IF es = <<>> THEN seq ELSE applyEdits(applyEdit(seq, Head(es)), Tail(es))

\* C15: computeDiff is a correct diff. The edits returned, applied to the
\* original sequence, give the modified sequence.
C15_DiffIsCorrect ==
    edits # <<>> => applyEdits(originalSequence, edits[1]) = modifiedSequence

\* C16: computeDiff returns only edits in range: start is an index of the
\* original sequence or its length, deleteCount is not negative and the
\* deleted range ends within the original sequence.
C16_EditsInRange ==
    edits # <<>> =>
        \A i \in 1..Len(edits[1]) :
            /\ 0 <= edits[1][i].start
            /\ edits[1][i].start <= Len(originalSequence)
            /\ edits[1][i].deleteCount >= 0
            /\ edits[1][i].start + edits[1][i].deleteCount <= Len(originalSequence)

\* C20: computeDiff returns at most one edit, and no edit exactly when the two
\* sequences are equal.
C20_AtMostOneEdit ==
    edits # <<>> =>
        /\ Len(edits[1]) <= 1
        /\ edits[1] = <<>> <=> originalSequence = modifiedSequence

\* computeDiff was called on two different sequences, the original being the
\* longer and the modified one its prefix, and returned one edit; and it was
\* called on two equal sequences that are not empty, and returned none.
C20_Witness ==
    /\ edits # <<>>
    /\ \/ /\ Len(originalSequence) > Len(modifiedSequence)
          /\ modifiedSequence = Take(originalSequence, Len(modifiedSequence))
          /\ modifiedSequence # <<>>
          /\ Len(edits[1]) = 1
       \/ /\ originalSequence = modifiedSequence
          /\ originalSequence # <<>>
          /\ edits[1] = <<>>


-----------------------------------------------------------------------------
(* SemanticTokensBuilder, checked under BuilderSpec *)

MaxId == 2
MaxPush == 2

\* The tokens pushed: on two lines, at two characters, in any order.
Tokens == [line : 0..1, char : 0..1, length : {3}, tokenType : {4}, tokenModifiers : {5}]

\* A builder constructed at some time; no reader runs and no diff is computed
\* outside buildEdits.
BuilderInit ==
    /\ ReaderInit({<<>>}, {FALSE})
    /\ builder \in { NewBuilder(t) : t \in 0..MaxId }
    /\ pushed = <<>>
    /\ lastPrevious = "none"
    /\ returned = <<>>
    /\ originalSequence = <<>>
    /\ modifiedSequence = <<>>
    /\ edits = <<>>

Push(tok) ==
    /\ Len(pushed) < MaxPush
    /\ builder' = push(builder, tok.line, tok.char, tok.length, tok.tokenType, tok.tokenModifiers)
    /\ pushed' = Append(pushed, tok)
    /\ UNCHANGED <<readerVars, lastPrevious, returned, originalSequence, modifiedSequence, edits>>

\* previousResult(id) at time t: Date.now() does not go back.
PreviousResult(id, t) ==
    /\ t >= builder.id
    /\ builder' = previousResult(builder, id, t)
    /\ pushed' = <<>>
    /\ lastPrevious' = IF builder.id = id THEN "match" ELSE "mismatch"
    /\ returned' = <<>>
    /\ UNCHANGED <<readerVars, originalSequence, modifiedSequence, edits>>

Build ==
    /\ builder' = build(builder).builder
    /\ returned' = <<build(builder).value>>
    /\ UNCHANGED <<readerVars, pushed, lastPrevious, originalSequence, modifiedSequence, edits>>

BuildEdits ==
    /\ builder' = buildEdits(builder).builder
    /\ returned' = <<buildEdits(builder).value>>
    /\ UNCHANGED <<readerVars, pushed, lastPrevious, originalSequence, modifiedSequence, edits>>

BuilderNext ==
    \/ \E tok \in Tokens : Push(tok)
    \/ \E id \in 0..MaxId, t \in 0..MaxId : PreviousResult(id, t)
    \/ Build
    \/ BuildEdits

BuilderSpec == BuilderInit /\ [][BuilderNext]_vars

\* C17: the builder forgets a stale previous result. After a previousResult
\* call whose id was not the builder's id, and until the next previousResult
\* call, canBuildEdits() is false and what build() or buildEdits() returns is
\* the full data, not edits.
C17_StalePreviousResultForgotten ==
    lastPrevious = "mismatch" =>
        /\ ~canBuildEdits(builder)
        /\ returned # <<>> => "data" \in DOMAIN returned[1]

RECURSIVE decode(_, _, _)
\* The tokens that data, read in groups of five from the position (line,
\* char), stands for.
decode(data, line, char) ==
    IF Len(data) < 5 THEN <<>>
    ELSE LET l == line + data[1]
             c == IF data[1] = 0 THEN char + data[2] ELSE data[2]
         IN  << [line |-> l, char |-> c, length |-> data[3], tokenType |-> data[4],
                 tokenModifiers |-> data[5]] >> \o decode(Drop(data, 5), l, c)

\* C19: push round-trips. The data holds five numbers per pushed token, and
\* decoded from (0, 0) it gives back the pushed tokens, in order.
C19_PushRoundTrips ==
    /\ Len(builder.data) = 5 * Len(pushed)
    /\ decode(builder.data, 0, 0) = pushed

\* Two tokens were pushed, the second on another line than the first and at
\* a character other than 0, after an earlier previousResult call.
C19_Witness ==
    /\ Len(pushed) = 2
    /\ pushed[2].line # pushed[1].line
    /\ pushed[2].char # 0 /\ pushed[1].char # 0
    /\ lastPrevious # "none"
    /\ decode(builder.data, 0, 0) = pushed

====
